---- MODULE Spec2Model ----
(***************************************************************************)
(* A model of the mandlebrot crate: the escape-time kernel of src/lib.rs   *)
(* (pixel_to_complex, escape_time, complex_to_grayscale), the rayon        *)
(* pipeline calculate_pixel_data with its consumer pixels_to_rgbimage, and *)
(* the prompt loop of src/terminal_input.rs.                               *)
(*                                                                         *)
(* f64 values are modelled as exact rationals <<numerator, denominator>>   *)
(* in lowest terms with a positive denominator.  Rounding, infinities and  *)
(* NaN are outside the model; every input set below is chosen so that the  *)
(* exact value stays inside TLC's integer range.                           *)
(***************************************************************************)
EXTENDS Integers, Sequences, FiniteSets, TLC

VARIABLES
    \* a call of one of the pure functions and what it returned
    call, ret,
    \* calculate_pixel_data: its arguments, the rectangle it resolves, the
    \* pieces of the parallel iterator, and the Vec it returns
    args, viewport, tasks, buffer,
    \* where the caller is: "render", "collected", "imaged"
    pc,
    \* the RgbImage that pixels_to_rgbimage builds
    image,
    \* the applications of z -> z*z + c performed by the current render
    applications,
    \* which render of the same arguments this is, and the Vec the one
    \* before it returned
    render_no, previous,
    \* the prompt loop: which function runs, where it is, the String that
    \* get_line returned last, and what the loop returned
    prompt_fn, in_pc, input, result,
    \* prompts written, lines read, "Invalid input" messages printed, and
    \* how many of the lines read so far parse
    written, reads, rejected, parsable_seen

evalVars == <<call, ret>>
inputVars ==
    <<prompt_fn, in_pc, input, result, written, reads, rejected, parsable_seen>>
renderVars ==
    <<args, viewport, tasks, buffer, pc, image, applications, render_no, previous>>
vars == <<call, ret, args, viewport, tasks, buffer, pc, image, applications,
          render_no, previous, prompt_fn, in_pc, input, result, written, reads,
          rejected, parsable_seen>>

(***************************************************************************)
(* Bounds of the model.                                                    *)
(***************************************************************************)
\* iteration_max ranges over 0..MaxIter
MaxIter == 3
\* the sample points of the pure-function calls are the half-integers
\* k/2 with |k| <= MaxHalf
MaxHalf == 5
\* escape counts handed to the match of complex_to_grayscale: 0..MaxEscape
MaxEscape == 520
\* calculate_pixel_data renders images of 0..MaxWidth by 0..MaxHeight pixels
MaxWidth == 2
MaxHeight == 2
\* the lines typed at the prompt hold at most MaxLineLen characters before
\* the line break, and the prompt loop reads at most MaxReads lines
MaxLineLen == 2
MaxReads == 3
\* image_width and image_height of a pixel_to_complex call: 1..MaxDim
MaxDim == 3
\* the viewport corners of a pixel_to_complex call have integer coordinates
\* in -MaxCorner..MaxCorner
MaxCorner == 1

(***************************************************************************)
(* Exact rationals standing for f64.                                       *)
(***************************************************************************)
Abs(n) == IF n < 0 THEN -n ELSE n

RECURSIVE Gcd(_, _)
Gcd(a, b) == IF b = 0 THEN a ELSE Gcd(b, a % b)

\* the rational n/d (d # 0) in lowest terms, denominator positive
Rat(n, d) ==
    LET g == Gcd(Abs(n), Abs(d))
        s == IF d < 0 THEN -1 ELSE 1
    IN  <<(s * n) \div g, (s * d) \div g>>

\* usize as f64
AsF64(n) == <<n, 1>>

\* sums and comparisons go through the least common denominator
RAdd(a, b) ==
    LET g == Gcd(a[2], b[2])
    IN  Rat(a[1] * (b[2] \div g) + b[1] * (a[2] \div g), (a[2] \div g) * b[2])
RSub(a, b) == RAdd(a, <<-b[1], b[2]>>)
RMul(a, b) == Rat(a[1] * b[1], a[2] * b[2])
RDiv(a, b) == Rat(a[1] * b[2], a[2] * b[1])
RGt(a, b) ==
    LET g == Gcd(a[2], b[2])
    IN  a[1] * (b[2] \div g) > b[1] * (a[2] \div g)

(***************************************************************************)
(* num::Complex<f64>                                                       *)
(***************************************************************************)
Complex(re, im) == [re |-> re, im |-> im]

CAdd(a, b) == Complex(RAdd(a.re, b.re), RAdd(a.im, b.im))

\* Complex::mul: (a.re*b.re - a.im*b.im) + (a.re*b.im + a.im*b.re) i
CMul(a, b) ==
    Complex(RSub(RMul(a.re, b.re), RMul(a.im, b.im)),
            RAdd(RMul(a.re, b.im), RMul(a.im, b.re)))

\* Complex::scale
CScale(a, t) == Complex(RMul(a.re, t), RMul(a.im, t))

\* Complex::norm_sqr
norm_sqr(z) == RAdd(RMul(z.re, z.re), RMul(z.im, z.im))

(***************************************************************************)
(* Option<usize>: None is the empty tuple, Some(n) the tuple <<n>>.        *)
(***************************************************************************)
None == << >>
Some(n) == <<n>>

(***************************************************************************)
(* escape_time                                                             *)
(***************************************************************************)
\* the comparison of `if z.norm_sqr() > 4.0`, taken with >= instead
EscapedAtLeast(z) == ~ RGt(<<4, 1>>, norm_sqr(z))

\* if z.norm_sqr() > 4.0
Escaped(z) == RGt(norm_sqr(z), <<4, 1>>)

\* the loop taken as `for n in 0..=iteration_max`
RECURSIVE escape_loop_inclusive(_, _, _, _)
escape_loop_inclusive(z, c, n, iteration_max) ==
    IF n > iteration_max
    THEN [result |-> None, steps |-> n]
    ELSE LET z1 == CAdd(CMul(z, z), c)
         IN  IF Escaped(z1)
             THEN [result |-> Some(n), steps |-> n + 1]
             ELSE escape_loop_inclusive(z1, c, n + 1, iteration_max)

\* The loop `for n in 0..iteration_max` from its n-th turn on, z being the
\* value before the turn.  steps counts the applications of z -> z*z + c.
RECURSIVE escape_loop(_, _, _, _)
escape_loop(z, c, n, iteration_max) ==
    IF n >= iteration_max
    THEN [result |-> None, steps |-> n]
    ELSE LET z1 == CAdd(CMul(z, z), c)
         IN  IF Escaped(z1)
             THEN [result |-> Some(n), steps |-> n + 1]
             ELSE escape_loop(z1, c, n + 1, iteration_max)

escape_run(c, iteration_max) ==
    escape_loop(Complex(<<0, 1>>, <<0, 1>>), c, 0, iteration_max)

escape_time(c, iteration_max) == escape_run(c, iteration_max).result

(***************************************************************************)
(* complex_to_grayscale                                                    *)
(***************************************************************************)
Color(r, g, b) == <<r, g, b>>

\* `as u8` saturating at 255 instead of truncating
AsU8Clamped(n) == IF n > 255 THEN 255 ELSE n

\* usize `as u8`: truncation to the low 8 bits
AsU8(n) == n % 256

\* the match on the Option that escape_time returned
grayscale_of_escape(e) ==
    IF e = None
    THEN Color(0, 0, 0)
    ELSE Color(AsU8(e[1]), AsU8(e[1]), AsU8(e[1]))

complex_to_grayscale(c, iteration_max) ==
    grayscale_of_escape(escape_time(c, iteration_max))

(***************************************************************************)
(* pixel_to_complex                                                        *)
(***************************************************************************)
\* pixel_to_complex sampling the pixel's far edge: (x + 1) / image_width
pixel_to_complex_far_edge(x, y, image_width, image_height, top_left, bottom_right) ==
    Complex(
      RAdd(top_left.re,
           RDiv(RMul(RSub(bottom_right.re, top_left.re), AsF64(x + 1)),
                AsF64(image_width))),
      RAdd(top_left.im,
           RDiv(RMul(RSub(bottom_right.im, top_left.im), AsF64(y + 1)),
                AsF64(image_height))))

pixel_to_complex(x, y, image_width, image_height, top_left, bottom_right) ==
    LET left_bound == top_left.re
        top_bound == top_left.im
        bottom_bound == bottom_right.im
        right_bound == bottom_right.re
        rect_width ==
            RDiv(RMul(RSub(right_bound, left_bound), AsF64(x)), AsF64(image_width))
        rect_height ==
            RDiv(RMul(RSub(bottom_bound, top_bound), AsF64(y)), AsF64(image_height))
        real == RAdd(left_bound, rect_width)
        imaginary == RAdd(top_bound, rect_height)
    IN  Complex(real, imaginary)

(***************************************************************************)
(* terminal_input.rs: get_num and get_line; test.rs: get_parsed_input and  *)
(* get_input.  T is usize.                                                 *)
(***************************************************************************)
Chars == {" ", "7", "x"}
Whitespace == {" ", "\n"}

\* the lines stdin can deliver: up to MaxLineLen characters and a line break
RECURSIVE Strings(_)
Strings(n) ==
    IF n = 0
    THEN {<< >>}
    ELSE LET shorter == Strings(n - 1)
         IN  shorter \cup {Append(t, ch) : t \in shorter, ch \in Chars}
RawLines == {Append(t, "\n") : t \in Strings(MaxLineLen)}

\* str::trim_end
RECURSIVE trim_end(_)
trim_end(t) ==
    IF t # << >> /\ t[Len(t)] \in Whitespace
    THEN trim_end(SubSeq(t, 1, Len(t) - 1))
    ELSE t

\* str::trim_start
RECURSIVE trim_start(_)
trim_start(t) ==
    IF t # << >> /\ t[1] \in Whitespace THEN trim_start(Tail(t)) ELSE t

\* str::trim
trim(t) == trim_start(trim_end(t))

\* get_line: input.trim().to_owned();
\* get_input: input.truncate(input.trim_end().len())
returned_line(fn, raw) == IF fn = "get_num" THEN trim(raw) ELSE trim_end(raw)

\* the decimal value of a string of digits
RECURSIVE DigitsValue(_)
DigitsValue(t) ==
    IF t = << >> THEN 0 ELSE 10 * DigitsValue(SubSeq(t, 1, Len(t) - 1)) + 7

\* str::parse::<usize>: Some(value) for a non-empty string of digits, None
\* for a parse error
parse(t) ==
    IF t # << >> /\ \A k \in 1..Len(t) : t[k] = "7"
    THEN Some(DigitsValue(t))
    ELSE None

Ok(v) == [ok |-> TRUE, value |-> v, error |-> "none"]
Err(e) == [ok |-> FALSE, value |-> 0, error |-> e]
NoResult == [ok |-> FALSE, value |-> 0, error |-> "none"]

\* the match with the parse error handed back to the caller
after_parse_propagating(parsed) ==
    IF parsed # None
    THEN [pc |-> "returned", result |-> Ok(parsed[1]), rejected |-> 0]
    ELSE [pc |-> "returned", result |-> Err("parse"), rejected |-> 0]

\* match input.parse() { Ok(n) => return Ok(n), Err(e) => eprintln!(..) }
\* inside `loop`: where the loop goes, what it returns, messages printed
after_parse(parsed) ==
    IF parsed # None
    THEN [pc |-> "returned", result |-> Ok(parsed[1]), rejected |-> 0]
    ELSE [pc |-> "write", result |-> NoResult, rejected |-> 1]

\* the prompt loop is not running (its state in the other specifications)
InputIdle ==
    /\ prompt_fn = "none"
    /\ in_pc = "idle"
    /\ input = << >>
    /\ result = NoResult
    /\ written = 0
    /\ reads = 0
    /\ rejected = 0
    /\ parsable_seen = 0

(***************************************************************************)
(* calculate_pixel_data                                                    *)
(***************************************************************************)
\* the rectangle with bottom_right mirrored through the origin argument
resolve_viewport_centered(origin, scale_factor) ==
    [top_left |-> CAdd(origin, CScale(Complex(<<-2, 1>>, <<6, 5>>), scale_factor)),
     bottom_right |-> CAdd(origin, CScale(Complex(<<2, 1>>, <<-6, 5>>), scale_factor))]

\* let top_left = origin + Complex::new(-2.0, 1.2).scale(scale_factor);
\* let bottom_right = origin + Complex::new(0.5, -1.2).scale(scale_factor);
resolve_viewport(origin, scale_factor) ==
    [top_left |-> CAdd(origin, CScale(Complex(<<-2, 1>>, <<6, 5>>), scale_factor)),
     bottom_right |-> CAdd(origin, CScale(Complex(<<1, 2>>, <<-6, 5>>), scale_factor))]

\* the complex number of pixel (x, y) in the render under way
sample(x, y) ==
    pixel_to_complex(x, y, args.image_width, args.image_height,
                     viewport.top_left, viewport.bottom_right)

\* the closure body with image_width and image_height handed over swapped
compute_pixel_swapped(pixel_x, pixel_y) ==
    [x |-> pixel_x, y |-> pixel_y,
     color |-> complex_to_grayscale(
                 pixel_to_complex(pixel_x, pixel_y, args.image_height,
                                  args.image_width, viewport.top_left,
                                  viewport.bottom_right),
                 args.iteration_max)]

\* the closure body building Pixel { x: pixel_y, y: pixel_x, color }
compute_pixel_transposed(pixel_x, pixel_y) ==
    [x |-> pixel_y, y |-> pixel_x,
     color |-> complex_to_grayscale(sample(pixel_x, pixel_y), args.iteration_max)]

\* the body of the inner closure: Pixel { x: pixel_x, y: pixel_y, color }
compute_pixel(pixel_x, pixel_y) ==
    [x |-> pixel_x, y |-> pixel_y,
     color |-> complex_to_grayscale(sample(pixel_x, pixel_y), args.iteration_max)]

\* (lo..hi).map(closure) folded by one worker, for the row y
RECURSIVE cols_output(_, _, _)
cols_output(y, lo, hi) ==
    IF lo >= hi
    THEN << >>
    ELSE <<compute_pixel(lo, y)>> \o cols_output(y, lo + 1, hi)

\* (lo..hi).flat_map(|pixel_y| (0..image_width).map(closure)) folded by one
\* worker
RECURSIVE rows_output(_, _)
rows_output(lo, hi) ==
    IF lo >= hi
    THEN << >>
    ELSE cols_output(lo, 0, args.image_width) \o rows_output(lo + 1, hi)

\* the applications of the update rule that the pixels of a piece cost
RECURSIVE cols_steps(_, _, _)
cols_steps(y, lo, hi) ==
    IF lo >= hi
    THEN 0
    ELSE escape_run(sample(lo, y), args.iteration_max).steps
           + cols_steps(y, lo + 1, hi)

RECURSIVE rows_steps(_, _)
rows_steps(lo, hi) ==
    IF lo >= hi
    THEN 0
    ELSE cols_steps(lo, 0, args.image_width) + rows_steps(lo + 1, hi)

\* two neighbouring results appended right before left
append_results_reversed(left, right) == right \o left

\* collect() appends the results of neighbouring pieces left before right
append_results(left, right) == left \o right

\* A piece of the parallel iterator: rows lo..hi of the outer range still to
\* do, columns lo..hi of row y still to do, or a finished piece's output.
RowsPiece(lo, hi) == [kind |-> "rows", y |-> 0, lo |-> lo, hi |-> hi, out |-> << >>]
ColsPiece(y, lo, hi) == [kind |-> "cols", y |-> y, lo |-> lo, hi |-> hi, out |-> << >>]
DonePiece(out) == [kind |-> "done", y |-> 0, lo |-> 0, hi |-> 0, out |-> out]

\* rayon halves a range: split_at(len / 2)
Mid(lo, hi) == lo + ((hi - lo) \div 2)

Replace(i, pieces) ==
    SubSeq(tasks, 1, i - 1) \o pieces \o SubSeq(tasks, i + 1, Len(tasks))

\* The reduce step of collect(): as soon as two neighbouring pieces are both
\* finished their results are appended, so finished neighbours never stay
\* apart.
RECURSIVE Reduce(_)
Reduce(pieces) ==
    IF Len(pieces) < 2
    THEN pieces
    ELSE IF pieces[1].kind = "done" /\ pieces[2].kind = "done"
         THEN Reduce(<<DonePiece(append_results(pieces[1].out, pieces[2].out))>>
                       \o Tail(Tail(pieces)))
         ELSE <<pieces[1]>> \o Reduce(Tail(pieces))

\* scale_factor and origin of the modelled calls
Views ==
    { [scale_factor |-> <<0, 1>>, origin |-> Complex(<<1, 1>>, <<1, 1>>)],
      [scale_factor |-> <<1, 1>>, origin |-> Complex(<<3, 1>>, <<0, 1>>)],
      [scale_factor |-> <<5, 2>>, origin |-> Complex(<<17, 4>>, <<-7, 4>>)] }

NoImage == [width |-> 0, height |-> 0, data |-> << >>, writes |-> << >>,
            panicked |-> FALSE]

\* no render is under way (the state of the render in the other
\* specifications)
RenderIdle ==
    /\ args = [image_width |-> 0, image_height |-> 0, scale_factor |-> <<0, 1>>,
               origin |-> Complex(<<0, 1>>, <<0, 1>>), iteration_max |-> 0]
    /\ viewport = resolve_viewport(args.origin, args.scale_factor)
    /\ tasks = << >>
    /\ buffer = << >>
    /\ pc = "idle"
    /\ image = NoImage
    /\ applications = 0
    /\ render_no = 0
    /\ previous = << >>

\* calculate_pixel_data has been entered: the rectangle is resolved and the
\* outer range 0..image_height is one piece
Init ==
    /\ call = [fn |-> "none"]
    /\ ret = None
    /\ InputIdle
    /\ \E w \in 0..MaxWidth, h \in 0..MaxHeight, v \in Views, n \in 0..MaxIter :
          args = [image_width |-> w, image_height |-> h,
                  scale_factor |-> v.scale_factor, origin |-> v.origin,
                  iteration_max |-> n]
    /\ viewport = resolve_viewport(args.origin, args.scale_factor)
    /\ tasks = <<RowsPiece(0, args.image_height)>>
    /\ buffer = << >>
    /\ pc = "render"
    /\ image = NoImage
    /\ applications = 0
    /\ render_no = 1
    /\ previous = << >>

\* rayon splits a piece of the outer range in two halves
SplitRows ==
    \E i \in 1..Len(tasks) :
        /\ pc = "render"
        /\ tasks[i].kind = "rows"
        /\ tasks[i].hi - tasks[i].lo >= 2
        /\ LET m == Mid(tasks[i].lo, tasks[i].hi)
           IN  tasks' = Replace(i, <<RowsPiece(tasks[i].lo, m),
                                     RowsPiece(m, tasks[i].hi)>>)
        /\ UNCHANGED <<evalVars, inputVars, args, viewport, buffer, pc, image,
                       applications, render_no, previous>>

\* the outer closure runs for one row and hands its inner range to rayon
OpenRow ==
    \E i \in 1..Len(tasks) :
        /\ pc = "render"
        /\ tasks[i].kind = "rows"
        /\ tasks[i].hi = tasks[i].lo + 1
        /\ tasks' = Replace(i, <<ColsPiece(tasks[i].lo, 0, args.image_width)>>)
        /\ UNCHANGED <<evalVars, inputVars, args, viewport, buffer, pc, image,
                       applications, render_no, previous>>

\* rayon splits a piece of an inner range in two halves
SplitCols ==
    \E i \in 1..Len(tasks) :
        /\ pc = "render"
        /\ tasks[i].kind = "cols"
        /\ tasks[i].hi - tasks[i].lo >= 2
        /\ LET m == Mid(tasks[i].lo, tasks[i].hi)
           IN  tasks' = Replace(i, <<ColsPiece(tasks[i].y, tasks[i].lo, m),
                                     ColsPiece(tasks[i].y, m, tasks[i].hi)>>)
        /\ UNCHANGED <<evalVars, inputVars, args, viewport, buffer, pc, image,
                       applications, render_no, previous>>

\* a worker folds a piece of the outer range, rows and columns in order,
\* and its result is reduced with its finished neighbours
RunRows ==
    \E i \in 1..Len(tasks) :
        /\ pc = "render"
        /\ tasks[i].kind = "rows"
        /\ tasks' = Reduce(Replace(i, <<DonePiece(rows_output(tasks[i].lo,
                                                             tasks[i].hi))>>))
        /\ applications' = applications + rows_steps(tasks[i].lo, tasks[i].hi)
        /\ UNCHANGED <<evalVars, inputVars, args, viewport, buffer, pc, image,
                       render_no, previous>>

\* a worker folds a piece of an inner range, and its result is reduced with
\* its finished neighbours
RunCols ==
    \E i \in 1..Len(tasks) :
        /\ pc = "render"
        /\ tasks[i].kind = "cols"
        /\ tasks' = Reduce(Replace(i, <<DonePiece(cols_output(tasks[i].y,
                                                             tasks[i].lo,
                                                             tasks[i].hi))>>))
        /\ applications' =
              applications + cols_steps(tasks[i].y, tasks[i].lo, tasks[i].hi)
        /\ UNCHANGED <<evalVars, inputVars, args, viewport, buffer, pc, image,
                       render_no, previous>>

\* collect() returns the Vec once a single finished piece is left
Collect ==
    /\ pc = "render"
    /\ Len(tasks) = 1
    /\ tasks[1].kind = "done"
    /\ buffer' = tasks[1].out
    /\ tasks' = << >>
    /\ pc' = "collected"
    /\ UNCHANGED <<evalVars, inputVars, args, viewport, image, applications, render_no,
                   previous>>

(***************************************************************************)
(* pixels_to_rgbimage                                                      *)
(***************************************************************************)
Coords(width, height) == (0..(width - 1)) \X (0..(height - 1))

\* image::RgbImage::new(width, height): every pixel (0, 0, 0)
NewRgbImage(width, height) ==
    [width |-> width, height |-> height,
     data |-> [p \in Coords(width, height) |-> Color(0, 0, 0)],
     writes |-> [p \in Coords(width, height) |-> 0],
     panicked |-> FALSE]

\* `for pixel in pixels` from the k-th pixel on; get_pixel_mut panics on a
\* coordinate outside the image.  writes counts the assignments per pixel.
RECURSIVE put_pixels(_, _, _)
put_pixels(img, pixels, k) ==
    IF k > Len(pixels)
    THEN img
    ELSE LET p == pixels[k]
         IN  IF p.x >= img.width \/ p.y >= img.height
             THEN [img EXCEPT !.panicked = TRUE]
             ELSE put_pixels(
                    [img EXCEPT !.data[<<p.x, p.y>>] = p.color,
                                !.writes[<<p.x, p.y>>] = @ + 1],
                    pixels, k + 1)

pixels_to_rgbimage(pixels, width, height) ==
    put_pixels(NewRgbImage(width, height), pixels, 1)

\* pixels_to_colorimage: output.pixels, the colours in the order of the Vec
pixels_to_colorimage(pixels) == [k \in 1..Len(pixels) |-> pixels[k].color]

\* colors_to_rgbimage: ImageBuffer::from_par_fn(width, height, |x, y|
\* color_data[y * width + x])
colors_to_rgbimage(color_data, width, height) ==
    [p \in Coords(width, height) |-> color_data[p[2] * width + p[1] + 1]]

\* the caller hands the Vec to pixels_to_rgbimage with the same width and
\* height
ToRgbImage ==
    /\ pc = "collected"
    /\ image' = pixels_to_rgbimage(buffer, args.image_width, args.image_height)
    /\ pc' = "imaged"
    /\ UNCHANGED <<evalVars, inputVars, args, viewport, tasks, buffer, applications,
                   render_no, previous>>

\* the caller renders once more with the same arguments
RenderAgain ==
    /\ pc = "imaged"
    /\ render_no = 1
    /\ previous' = buffer
    /\ render_no' = 2
    /\ tasks' = <<RowsPiece(0, args.image_height)>>
    /\ buffer' = << >>
    /\ image' = NoImage
    /\ applications' = 0
    /\ pc' = "render"
    /\ UNCHANGED <<evalVars, inputVars, args, viewport>>

Next ==
    \/ SplitRows
    \/ OpenRow
    \/ SplitCols
    \/ RunRows
    \/ RunCols
    \/ Collect
    \/ ToRgbImage
    \/ RenderAgain

Spec == Init /\ [][Next]_vars

(***************************************************************************)
(* The prompt loop as a process.                                           *)
(***************************************************************************)
\* get_num or get_parsed_input has been called; the loop is at its top
InputInit ==
    /\ call = [fn |-> "none"]
    /\ ret = None
    /\ RenderIdle
    /\ prompt_fn \in {"get_num", "get_parsed_input"}
    /\ in_pc = "write"
    /\ input = << >>
    /\ result = NoResult
    /\ written = 0
    /\ reads = 0
    /\ rejected = 0
    /\ parsable_seen = 0

\* stdout.write(prompt.as_bytes())?
WritePrompt ==
    /\ in_pc = "write"
    /\ reads < MaxReads
    /\ \/ /\ in_pc' = "flush"
          /\ written' = written + 1
          /\ UNCHANGED result
       \/ /\ in_pc' = "returned"
          /\ result' = Err("write")
          /\ UNCHANGED written
    /\ UNCHANGED <<evalVars, renderVars, prompt_fn, input, reads, rejected,
                   parsable_seen>>

\* stdout.flush()?
FlushPrompt ==
    /\ in_pc = "flush"
    /\ \/ /\ in_pc' = "read"
          /\ UNCHANGED result
       \/ /\ in_pc' = "returned"
          /\ result' = Err("flush")
    /\ UNCHANGED <<evalVars, renderVars, prompt_fn, input, written, reads,
                   rejected, parsable_seen>>

\* stdin.read_line(&mut input)?, then the trimming, then Ok(input)
ReadLine ==
    /\ in_pc = "read"
    /\ \/ \E raw \in RawLines :
             /\ input' = returned_line(prompt_fn, raw)
             /\ reads' = reads + 1
             /\ parsable_seen' =
                   parsable_seen
                     + (IF parse(returned_line(prompt_fn, raw)) # None THEN 1 ELSE 0)
             /\ in_pc' = "parse"
             /\ UNCHANGED result
       \/ /\ in_pc' = "returned"
          /\ result' = Err("read")
          /\ UNCHANGED <<input, reads, parsable_seen>>
    /\ UNCHANGED <<evalVars, renderVars, prompt_fn, written, rejected>>

\* match input.parse() { .. }
ParseInput ==
    /\ in_pc = "parse"
    /\ LET next == after_parse(parse(input))
       IN  /\ in_pc' = next.pc
           /\ result' = next.result
           /\ rejected' = rejected + next.rejected
    /\ UNCHANGED <<evalVars, renderVars, prompt_fn, input, written, reads,
                   parsable_seen>>

InputNext ==
    \/ WritePrompt
    \/ FlushPrompt
    \/ ReadLine
    \/ ParseInput

SpecInput == InputInit /\ [][InputNext]_vars

(***************************************************************************)
(* SpecEval: the pure functions applied to inputs drawn from bounded sets. *)
(***************************************************************************)
Halves == {Rat(k, 2) : k \in (-MaxHalf)..MaxHalf}
Points == {Complex(re, im) : re \in Halves, im \in Halves}
\* corners of the viewports handed to pixel_to_complex
Corners ==
    {Complex(<<re, 1>>, <<im, 1>>) :
        re \in (-MaxCorner)..MaxCorner, im \in (-MaxCorner)..MaxCorner}
Escapes == {None} \cup {Some(n) : n \in 0..MaxEscape}

EvalInit ==
    /\ call = [fn |-> "none"]
    /\ ret = None
    /\ InputIdle
    /\ RenderIdle
    /\ InputIdle

CallEscapeTime ==
    /\ call.fn = "none"
    /\ \E c \in Points, iteration_max \in 0..MaxIter :
        /\ call' = [fn |-> "escape_time", c |-> c, iteration_max |-> iteration_max]
        /\ ret' = escape_time(c, iteration_max)

CallComplexToGrayscale ==
    /\ call.fn = "none"
    /\ \E c \in Points, iteration_max \in 0..MaxIter :
        /\ call' = [fn |-> "complex_to_grayscale", c |-> c,
                    iteration_max |-> iteration_max]
        /\ ret' = complex_to_grayscale(c, iteration_max)

\* the match of complex_to_grayscale on an escape count that the sample
\* points above do not produce within MaxIter iterations
CallGrayscaleOfEscape ==
    /\ call.fn = "none"
    /\ \E e \in Escapes :
        /\ call' = [fn |-> "grayscale_of_escape", escape |-> e]
        /\ ret' = grayscale_of_escape(e)

CallPixelToComplex ==
    /\ call.fn = "none"
    /\ \E image_width \in 1..MaxDim, image_height \in 1..MaxDim,
          top_left \in Corners, bottom_right \in Corners :
        \E x \in 0..(image_width - 1), y \in 0..(image_height - 1) :
            /\ call' = [fn |-> "pixel_to_complex", x |-> x, y |-> y,
                        image_width |-> image_width, image_height |-> image_height,
                        top_left |-> top_left, bottom_right |-> bottom_right]
            /\ ret' = pixel_to_complex(x, y, image_width, image_height,
                                       top_left, bottom_right)

EvalNext ==
    /\ \/ CallEscapeTime
       \/ CallComplexToGrayscale
       \/ CallGrayscaleOfEscape
       \/ CallPixelToComplex
    /\ UNCHANGED <<renderVars, inputVars>>

SpecEval == EvalInit /\ [][EvalNext]_vars

(***************************************************************************)
(* Claims about calculate_pixel_data and pixels_to_rgbimage, checked under *)
(* Spec.                                                                   *)
(***************************************************************************)
Returned == pc \in {"collected", "imaged"}

\* C2: the returned buffer has exactly image_width * image_height elements
\* in row-major order: the element at index y * image_width + x is the Pixel
\* with that x and y, coloured by complex_to_grayscale of pixel_to_complex.
\* The consumers that index by position (pixels_to_colorimage,
\* colors_to_rgbimage) therefore build the image that pixels_to_rgbimage
\* builds from the coordinates.
C2_BufferIsRowMajor ==
    /\ Returned =>
          /\ Len(buffer) = args.image_width * args.image_height
          /\ \A x \in 0..(args.image_width - 1), y \in 0..(args.image_height - 1) :
                buffer[y * args.image_width + x + 1] =
                  [x |-> x, y |-> y,
                   color |-> complex_to_grayscale(
                               pixel_to_complex(x, y, args.image_width,
                                                args.image_height,
                                                viewport.top_left,
                                                viewport.bottom_right),
                               args.iteration_max)]
    /\ pc = "imaged" =>
          colors_to_rgbimage(pixels_to_colorimage(buffer), args.image_width,
                             args.image_height) = image.data

\* a 2 x 2 image was returned whose second and third pixels differ in colour
C2_Witness ==
    /\ Returned
    /\ args.image_width = 2 /\ args.image_height = 2
    /\ buffer[2].color # buffer[3].color

\* C3: two renders with identical inputs return identical buffers, however
\* the pieces of either were split, scheduled and reduced.
C3_RendersAgree ==
    (render_no = 2 /\ Returned) => buffer = previous

\* the second render of a 2 x 2 image returned, its first two pixels of
\* different colours
C3_Witness ==
    /\ render_no = 2
    /\ pc = "collected"
    /\ Len(buffer) = 4
    /\ buffer[1].color # buffer[2].color

InvalidGeometry ==
    \/ args.image_width = 0
    \/ args.image_height = 0
    \/ viewport.top_left.re = viewport.bottom_right.re
    \/ viewport.top_left.im = viewport.bottom_right.im

\* C4: a render call with image_width = 0, image_height = 0 or a zero-area
\* viewport fails before any pixel is computed instead of returning a buffer.
C4_InvalidGeometryRejected ==
    InvalidGeometry =>
        /\ ~ Returned
        /\ \A i \in 1..Len(tasks) : tasks[i].kind # "done"

\* C6: with iteration_max = 0 no application of the update rule is performed
\* and every pixel of the returned buffer is black.
C6_ZeroIterationsAllBlack ==
    args.iteration_max = 0 =>
        /\ applications = 0
        /\ Returned =>
              /\ Len(buffer) = args.image_width * args.image_height
              /\ \A k \in 1..Len(buffer) : buffer[k].color = <<0, 0, 0>>

\* a 2 x 2 image was rendered with iteration_max = 0
C6_Witness ==
    /\ args.iteration_max = 0
    /\ Returned
    /\ Len(buffer) = 4

\* C7 as stated: the origin argument is the midpoint of top_left and
\* bottom_right.
C7_OriginIsMidpoint ==
    /\ RAdd(viewport.top_left.re, viewport.bottom_right.re)
         = RMul(<<2, 1>>, args.origin.re)
    /\ RAdd(viewport.top_left.im, viewport.bottom_right.im)
         = RMul(<<2, 1>>, args.origin.im)

\* C7 amended: the rectangle is 2.5 * scale_factor wide and
\* 2.4 * scale_factor high; the origin argument is its midpoint on the
\* imaginary axis, and lies 0.75 * scale_factor right of its midpoint on the
\* real axis.
C7_OriginIsOffCentre ==
    pc # "idle" =>
        /\ RSub(viewport.bottom_right.re, viewport.top_left.re)
             = RMul(<<5, 2>>, args.scale_factor)
        /\ RSub(viewport.top_left.im, viewport.bottom_right.im)
             = RMul(<<12, 5>>, args.scale_factor)
        /\ RAdd(viewport.top_left.im, viewport.bottom_right.im)
             = RMul(<<2, 1>>, args.origin.im)
        /\ RAdd(viewport.top_left.re, viewport.bottom_right.re)
             = RSub(RMul(<<2, 1>>, args.origin.re),
                    RMul(<<3, 2>>, args.scale_factor))

\* a render over a rectangle of non-zero extent returned
C7_Witness ==
    /\ Returned
    /\ args.scale_factor # <<0, 1>>
    /\ Len(buffer) > 0

\* C9: every Pixel of the returned buffer lies inside the image and every
\* coordinate inside the image occurs exactly once; pixels_to_rgbimage with
\* the same width and height then never panics and assigns every pixel of
\* the image exactly once.
C9_EveryCoordinateOnce ==
    /\ Returned =>
          /\ \A k \in 1..Len(buffer) :
                buffer[k].x < args.image_width /\ buffer[k].y < args.image_height
          /\ \A p \in Coords(args.image_width, args.image_height) :
                Cardinality({k \in 1..Len(buffer) :
                               <<buffer[k].x, buffer[k].y>> = p}) = 1
    /\ pc = "imaged" =>
          /\ ~ image.panicked
          /\ \A p \in Coords(args.image_width, args.image_height) :
                /\ image.writes[p] = 1
                /\ \E k \in 1..Len(buffer) :
                      /\ <<buffer[k].x, buffer[k].y>> = p
                      /\ image.data[p] = buffer[k].color

\* a 2 x 2 image was built, with a pixel that is not black
C9_Witness ==
    /\ pc = "imaged"
    /\ image.width = 2 /\ image.height = 2
    /\ \E p \in Coords(2, 2) : image.data[p] # <<0, 0, 0>>

(***************************************************************************)
(* Claims about the pure functions, checked under SpecEval.                *)
(***************************************************************************)
\* the value of z after k applications of z -> z*z + c to z = 0
RECURSIVE Orbit(_, _)
Orbit(c, k) ==
    IF k = 0
    THEN Complex(<<0, 1>>, <<0, 1>>)
    ELSE LET z == Orbit(c, k - 1) IN CAdd(CMul(z, z), c)

\* the k-th application (k >= 1, 0-based index k - 1) leaves |z|^2 > 4
Exceeds(c, k) == RGt(norm_sqr(Orbit(c, k)), <<4, 1>>)

\* C1: escape_time(c, iteration_max) returns Some(n) exactly when n is the
\* 0-based index of the first application of z -> z*z + c, among the first
\* iteration_max, after which |z|^2 > 4, and None when no such application
\* exists; a returned n satisfies 0 <= n < iteration_max.
C1_EscapeTimeIsFirstExceeding ==
    call.fn = "escape_time" =>
        /\ ret = None => \A m \in 1..call.iteration_max : ~ Exceeds(call.c, m)
        /\ ret # None =>
              /\ ret[1] \in 0..(call.iteration_max - 1)
              /\ Exceeds(call.c, ret[1] + 1)
              /\ \A m \in 1..ret[1] : ~ Exceeds(call.c, m)

\* escape_time returned a late escape (the third application)
C1_Witness == call.fn = "escape_time" /\ ret = Some(2)

\* the grayscale triple whose channels are n modulo 256, black for None
WrappedGray(e) ==
    IF e = None
    THEN <<0, 0, 0>>
    ELSE LET v == e[1] - 256 * (e[1] \div 256) IN <<v, v, v>>

MapsAffinely ==
    /\ (call.x = 0 /\ call.y = 0) => ret = call.top_left
    /\ RMul(AsF64(call.image_width), RSub(ret.re, call.top_left.re))
         = RMul(AsF64(call.x), RSub(call.bottom_right.re, call.top_left.re))
    /\ RMul(AsF64(call.image_height), RSub(ret.im, call.top_left.im))
         = RMul(AsF64(call.y), RSub(call.bottom_right.im, call.top_left.im))

C10_RepromptUntilParsed ==
    /\ in_pc = "write" => (written = rejected /\ reads = rejected /\ parsable_seen = 0)
    /\ in_pc \in {"flush", "read"} =>
          (written = rejected + 1 /\ reads = rejected /\ parsable_seen = 0)
    /\ in_pc = "parse" => (written = reads /\ reads = rejected + 1)
    /\ (in_pc = "returned" /\ result.ok) =>
          /\ parse(input) = Some(result.value)
          /\ parsable_seen = 1
          /\ reads = rejected + 1
          /\ written = reads
    /\ (in_pc = "returned" /\ ~ result.ok) =>
          /\ result.error \in {"write", "flush", "read"}
          /\ parsable_seen = 0
          /\ reads = rejected
          /\ written = (IF result.error = "write" THEN rejected ELSE rejected + 1)

\* the loop returned a number after rejecting two lines
C10_Witness ==
    /\ in_pc = "returned"
    /\ result.ok
    /\ rejected = 2
    /\ written = 3

\* an I/O error ended the loop after a rejected line
C10_WitnessIoError ==
    /\ in_pc = "returned"
    /\ ~ result.ok
    /\ rejected = 1

====
